---- MODULE Spec2Model ----
(***************************************************************************)
(* Model of tslua_add_language (src/testfiles/example.cpp): the Lua-callable *)
(* operation that registers a dynamically loaded tree-sitter grammar under *)
(* a language name.  One attempt is a thread of control walking the        *)
(* function statement by statement; the registry `langs`, the loader and   *)
(* the message buffer IObuff are shared by all attempts.                   *)
(***************************************************************************)
EXTENDS Integers, Sequences, FiniteSets

(* ------------------------------ bounds --------------------------------- *)

\* Threads of control that may be inside the operation at once.
NumProcs == 2
\* Calls made over one behaviour (caps the loader log).
MaxCalls == 2

Procs == 1..NumProcs

(* ------------------------- program constants --------------------------- *)

\* #define BUFSIZE 128
BUFSIZE == 128
\* Size of the host's shared message buffer IObuff (IOSIZE, 1024+1 in the host).
IOSIZE == 1025

(* --------------------------- value universe ---------------------------- *)

\* C strings: a null pointer, or a pointer to the text s.
NULL == [null |-> TRUE, s |-> ""]
CStr(s) == [null |-> FALSE, s |-> s]

\* Lua values a caller can pass.  A number is converted to text by the Lua
\* API (lua_isstring accepts it, lua_tostring rewrites it in place).
LuaNone == [t |-> "none", s |-> ""]
LuaNil == [t |-> "nil", s |-> ""]
LuaNum(s) == [t |-> "number", s |-> s]
LuaStr(s) == [t |-> "string", s |-> s]

GoodPath == "/usr/lib/libtspython.so"
Python == "python"

RECURSIVE Repeat(_, _)
Repeat(s, n) == IF n = 0 THEN "" ELSE s \o Repeat(s, n - 1)

\* A name one character too long for "tree_sitter_" + name to fit symbol_buf.
LongName == Repeat("x", BUFSIZE - 13) \o "a"

\* Another such name, equal to LongName in its first BUFSIZE - 13 characters.
LongName2 == Repeat("x", BUFSIZE - 13) \o "b"

LuaVals == {LuaNil, LuaNum("7"), LuaStr(GoodPath), LuaStr(Python), LuaStr(LongName),
            LuaStr(LongName2)}

\* Argument lists of zero, one or two values.
ArgLists == {<<>>} \cup {<<a>> : a \in LuaVals} \cup {<<a, b>> : a \in LuaVals, b \in LuaVals}

\* Diagnostics the loader reports for a failed open.
Diags == {"file not found", "invalid ELF header"}

\* Values an int function yields when control runs off its end.
UndefRets == {0, 1}

\* Registry contents the host may hold when the operation is entered: the
\* handle 0 stands for a library the host loaded beforehand.
InitRegistries == {<<>>, [n \in {Python} |-> 0]}

(* ------------------------------- state --------------------------------- *)

VARIABLES
    langs,       \* the registry: language name -> library handle
    IObuff,      \* the host's shared message buffer
    aborted,     \* the process has been brought down
    pc,          \* per attempt: the statement about to execute
    stack,       \* per attempt: the Lua stack of the call
    path,        \* per attempt: local `path`
    lang_name,   \* per attempt: local `lang_name`
    i,           \* per attempt: the loop variable
    symbol_buf,  \* per attempt: local `symbol_buf`
    lib,         \* per attempt: local `lib` (uv_lib_t)
    result,      \* per attempt: how the last call ended
    hello,       \* lines the loop body has written to cout
    loader,      \* log of uv_dlopen invocations, with the releases of each
    calls,       \* calls made so far
    entry,       \* per attempt: registry, arguments and loader log length at the call
    overlap      \* per attempt: another attempt was in flight during this one

vars == <<langs, IObuff, aborted, pc, stack, path, lang_name, i, symbol_buf,
          lib, result, hello, loader, calls, entry, overlap>>

(* ------------------------- the Lua stack API --------------------------- *)

lua_gettop(st) == Len(st)

lua_index(st, k) == IF k <= Len(st) THEN st[k] ELSE LuaNone

lua_isstring(st, k) == lua_index(st, k).t \in {"string", "number"}

lua_tostring(st, k) == IF lua_isstring(st, k) THEN CStr(lua_index(st, k).s) ELSE NULL

\* lua_tostring converts a number on the stack to a string in place.
lua_tostring_stack(st, k) ==
    IF k <= Len(st) /\ st[k].t = "number" THEN [st EXCEPT ![k] = LuaStr(st[k].s)] ELSE st

(* --------------------------- the operation ----------------------------- *)

\* Faulty variant of ArgCheckFails: every operand joined with ||.
ArgCheckFails_AllOr(st) ==
    lua_gettop(st) < 2 \/ ~lua_isstring(st, 1) \/ ~lua_isstring(st, 2)

\* Faulty variant of ArgCheckFails: only argument 2 is tested.
ArgCheckFails_SecondOnly(st) == ~lua_isstring(st, 2)

\* if ((lua_gettop(L) < 2 || !lua_isstring(L, 1)) && !lua_isstring(L, 2))
ArgCheckFails(st) ==
    (lua_gettop(st) < 2 \/ ~lua_isstring(st, 1)) /\ ~lua_isstring(st, 2)

\* Faulty variant of pmap_has: the lookup never finds the key.
pmap_has_NeverFound(m, key) == FALSE

\* pmap_has(cstr_t)(langs, lang_name), for a non-null key
pmap_has(m, key) == key \in DOMAIN m

\* Faulty variant of ForLoop: the condition and the increment in their
\* usual places, for (int i=0; i<10; i++).
RECURSIVE ForLoop_TenTimes(_, _)
ForLoop_TenTimes(iv, n) ==
    IF iv < 10 THEN ForLoop_TenTimes(iv + 1, n + 1) ELSE [i |-> iv, n |-> n]

\* for (int i=0; i++; i<10) { cout << ... }: the condition is i++ (the old
\* value of i, nonzero = true), the third expression i<10 has no effect.
\* Yields the final i and the number of times the body ran.
RECURSIVE ForLoop(_, _)
ForLoop(iv, n) ==
    IF iv # 0 THEN ForLoop(iv + 1, n + 1) ELSE [i |-> iv + 1, n |-> n]

\* Faulty variant of snprintf: size characters are kept, none left for the
\* terminator.
snprintf_OffByOne(size, s) == IF Len(s) <= size THEN s ELSE SubSeq(s, 1, size)

\* Faulty variant of snprintf: the output is not bounded (sprintf).
snprintf_Unbounded(size, s) == s

\* snprintf(buf, size, ...) keeps at most size-1 characters of the output.
snprintf(size, s) == IF Len(s) < size THEN s ELSE SubSeq(s, 1, size - 1)

\* Faulty variant of SymbolName: the format lacks the separating underscore.
SymbolName_NoUnderscore(name) == snprintf(BUFSIZE, "tree_sitter" \o name)

\* snprintf(symbol_buf, BUFSIZE, "tree_sitter_%s", lang_name)
SymbolName(name) == snprintf(BUFSIZE, "tree_sitter_" \o name)

\* uv_dlerror(&lib)
uv_dlerror(l) == IF l.errmsg.null THEN "no error" ELSE l.errmsg.s

\* Faulty variant of LoadFailedMessage: the loader's diagnostic is left out.
LoadFailedMessage_NoDiagnostic(l) == snprintf(IOSIZE, "Failed to load parser: uv_dlopen: ")

\* snprintf((char *)IObuff, IOSIZE, "Failed to load parser: uv_dlopen: %s", uv_dlerror(&lib))
LoadFailedMessage(l) == snprintf(IOSIZE, "Failed to load parser: uv_dlopen: " \o uv_dlerror(l))

\* uv_lib_t: the handle (0 = none), the error text, and the entry of the
\* loader log that records the open.
NoLib == [handle |-> 0, errmsg |-> NULL, log |-> 0]
NoResult == [kind |-> "none", n |-> 0, msg |-> ""]
Return(n) == [kind |-> "return", n |-> n, msg |-> ""]
Error(msg) == [kind |-> "error", n |-> 0, msg |-> msg]
Undefined(n) == [kind |-> "undefined", n |-> n, msg |-> ""]
Abort == [kind |-> "abort", n |-> 0, msg |-> ""]

Idle(p) == pc[p] = "idle"

\* The thread of control of the scripting host, which makes its calls one
\* at a time.
MainThread == CHOOSE p \in Procs : \A q \in Procs : p <= q

Init ==
    /\ langs \in InitRegistries
    /\ IObuff = ""
    /\ aborted = FALSE
    /\ pc = [p \in Procs |-> "idle"]
    /\ stack = [p \in Procs |-> <<>>]
    /\ path = [p \in Procs |-> NULL]
    /\ lang_name = [p \in Procs |-> NULL]
    /\ i = [p \in Procs |-> 0]
    /\ symbol_buf = [p \in Procs |-> ""]
    /\ lib = [p \in Procs |-> NoLib]
    /\ result = [p \in Procs |-> NoResult]
    /\ hello = 0
    /\ loader = <<>>
    /\ calls = 0
    /\ entry = [p \in Procs |-> [langs |-> langs, stack |-> <<>>, loader |-> 0]]
    /\ overlap = [p \in Procs |-> FALSE]

\* The host calls tslua_add_language(L) with the arguments args on L's stack.
Enter(p, args) ==
    /\ ~aborted
    /\ Idle(p)
    /\ calls < MaxCalls
    /\ calls' = calls + 1
    /\ pc' = [pc EXCEPT ![p] = "validate"]
    /\ stack' = [stack EXCEPT ![p] = args]
    /\ result' = [result EXCEPT ![p] = NoResult]
    /\ entry' = [entry EXCEPT ![p] = [langs |-> langs, stack |-> args, loader |-> Len(loader)]]
    /\ overlap' = [q \in Procs |->
                     IF q = p THEN \E r \in Procs \ {p} : ~Idle(r)
                     ELSE IF ~Idle(q) THEN TRUE ELSE overlap[q]]
    /\ UNCHANGED <<langs, IObuff, aborted, path, lang_name, i, symbol_buf, lib,
                   hello, loader>>

\* A call with any argument list.
Call(p) ==
    \E args \in ArgLists : Enter(p, args)

\* Control leaves the function with outcome res: the frame (the stack of
\* the call and the locals) is gone.
Leave(p, res) ==
    /\ result' = [result EXCEPT ![p] = res]
    /\ pc' = [pc EXCEPT ![p] = "idle"]
    /\ stack' = [stack EXCEPT ![p] = <<>>]
    /\ path' = [path EXCEPT ![p] = NULL]
    /\ lang_name' = [lang_name EXCEPT ![p] = NULL]
    /\ i' = [i EXCEPT ![p] = 0]
    /\ symbol_buf' = [symbol_buf EXCEPT ![p] = ""]
    /\ lib' = [lib EXCEPT ![p] = NoLib]

\* Control moves on to the statement at label next.
Goto(p, next) ==
    /\ pc' = [pc EXCEPT ![p] = next]
    /\ UNCHANGED result

\* Lines 6-8: the argument check; luaL_error raises "string expected".
Validate(p) ==
    /\ ~aborted
    /\ pc[p] = "validate"
    /\ IF ArgCheckFails(stack[p])
       THEN Leave(p, Error("string expected"))
       ELSE /\ Goto(p, "tostring")
            /\ UNCHANGED <<stack, path, lang_name, i, symbol_buf, lib>>
    /\ UNCHANGED <<langs, IObuff, aborted, hello, loader, calls, entry, overlap>>

\* Lines 10-11: path = lua_tostring(L, 1); lang_name = lua_tostring(L, 2).
ConvertArgs(p) ==
    /\ ~aborted
    /\ pc[p] = "tostring"
    /\ path' = [path EXCEPT ![p] = lua_tostring(stack[p], 1)]
    /\ lang_name' = [lang_name EXCEPT ![p] = lua_tostring(stack[p], 2)]
    /\ stack' = [stack EXCEPT ![p] = lua_tostring_stack(lua_tostring_stack(stack[p], 1), 2)]
    /\ Goto(p, "lookup")
    /\ UNCHANGED <<langs, IObuff, aborted, i, symbol_buf, lib, hello,
                   loader, calls, entry, overlap>>

\* Lines 13-15: the duplicate check; return 0 when the name is registered.
Lookup(p) ==
    /\ ~aborted
    /\ pc[p] = "lookup"
    /\ ~lang_name[p].null
    /\ IF pmap_has(langs, lang_name[p].s)
       THEN Leave(p, Return(0))
       ELSE /\ Goto(p, "loop")
            /\ UNCHANGED <<stack, path, lang_name, i, symbol_buf, lib>>
    /\ UNCHANGED <<langs, IObuff, aborted, hello, loader, calls, entry, overlap>>

\* Line 13 with lang_name == NULL: the map reads through a null key, which
\* is undefined; the process dies, or the lookup answers either way.
LookupNull(p) ==
    /\ ~aborted
    /\ pc[p] = "lookup"
    /\ lang_name[p].null
    /\ \/ /\ Leave(p, Abort)
          /\ aborted' = TRUE
       \/ /\ Leave(p, Return(0))
          /\ UNCHANGED aborted
       \/ /\ Goto(p, "loop")
          /\ UNCHANGED <<aborted, stack, path, lang_name, i, symbol_buf, lib>>
    /\ UNCHANGED <<langs, IObuff, hello, loader, calls, entry, overlap>>

\* Faulty variant of Loop: control passes over the symbol derivation.
Loop_SkipsDerive(p) ==
    /\ ~aborted
    /\ pc[p] = "loop"
    /\ i' = [i EXCEPT ![p] = ForLoop(0, 0).i]
    /\ hello' = hello + ForLoop(0, 0).n
    /\ Goto(p, "dlopen")
    /\ UNCHANGED <<langs, IObuff, aborted, stack, path, lang_name, symbol_buf,
                   lib, loader, calls, entry, overlap>>

\* Lines 17-19: the for loop.
Loop(p) ==
    /\ ~aborted
    /\ pc[p] = "loop"
    /\ i' = [i EXCEPT ![p] = ForLoop(0, 0).i]
    /\ hello' = hello + ForLoop(0, 0).n
    /\ Goto(p, "derive")
    /\ UNCHANGED <<langs, IObuff, aborted, stack, path, lang_name, symbol_buf,
                   lib, loader, calls, entry, overlap>>

\* Lines 21-24: format the entry-symbol name into symbol_buf.
Derive(p) ==
    /\ ~aborted
    /\ pc[p] = "derive"
    /\ ~lang_name[p].null
    /\ symbol_buf' = [symbol_buf EXCEPT ![p] = SymbolName(lang_name[p].s)]
    /\ Goto(p, "dlopen")
    /\ UNCHANGED <<langs, IObuff, aborted, stack, path, lang_name, i,
                   lib, hello, loader, calls, entry, overlap>>

\* Line 23 with lang_name == NULL: %s of a null pointer is undefined; the
\* process dies, or the C library formats "(null)".
DeriveNull(p) ==
    /\ ~aborted
    /\ pc[p] = "derive"
    /\ lang_name[p].null
    /\ \/ /\ Leave(p, Abort)
          /\ aborted' = TRUE
       \/ /\ symbol_buf' = [symbol_buf EXCEPT ![p] = SymbolName("(null)")]
          /\ Goto(p, "dlopen")
          /\ UNCHANGED <<aborted, stack, path, lang_name, i, lib>>
    /\ UNCHANGED <<langs, IObuff, hello, loader, calls, entry, overlap>>

\* Lines 26-27: uv_dlopen(path, &lib) opens the library (returns 0) or
\* fails (returns nonzero and leaves the diagnostic in lib).
DlOpen(p) ==
    /\ ~aborted
    /\ pc[p] = "dlopen"
    /\ \/ /\ lib' = [lib EXCEPT ![p] = [handle |-> Len(loader) + 1, errmsg |-> NULL,
                                        log |-> Len(loader) + 1]]
          /\ loader' = Append(loader, [proc |-> p, name |-> lang_name[p], ok |-> TRUE,
                                       diag |-> "", released |-> 0])
          /\ Goto(p, "end")
       \/ \E d \in Diags :
             /\ lib' = [lib EXCEPT ![p] = [handle |-> 0, errmsg |-> CStr(d),
                                           log |-> Len(loader) + 1]]
             /\ loader' = Append(loader, [proc |-> p, name |-> lang_name[p], ok |-> FALSE,
                                          diag |-> d, released |-> 0])
             /\ Goto(p, "fail")
    /\ UNCHANGED <<langs, IObuff, aborted, stack, path, lang_name, i, symbol_buf,
                   hello, calls, entry, overlap>>

\* Faulty variant of Fail: the name is entered in the registry on the
\* failure path.
Fail_Registers(p) ==
    /\ ~aborted
    /\ pc[p] = "fail"
    /\ IObuff' = LoadFailedMessage(lib[p])
    /\ langs' = [n \in DOMAIN langs \cup {lang_name[p].s} |->
                    IF n = lang_name[p].s THEN lib[p].log ELSE langs[n]]
    /\ Goto(p, "release")
    /\ UNCHANGED <<aborted, stack, path, lang_name, i, symbol_buf, lib,
                   hello, loader, calls, entry, overlap>>

\* Line 28: format the message, with the loader's diagnostic, into IObuff.
Fail(p) ==
    /\ ~aborted
    /\ pc[p] = "fail"
    /\ IObuff' = LoadFailedMessage(lib[p])
    /\ Goto(p, "release")
    /\ UNCHANGED <<langs, aborted, stack, path, lang_name, i, symbol_buf, lib,
                   hello, loader, calls, entry, overlap>>

\* Faulty variant of Release: lib is not released.
Release_Omitted(p) ==
    /\ ~aborted
    /\ pc[p] = "release"
    /\ Goto(p, "raise")
    /\ UNCHANGED <<langs, IObuff, aborted, stack, path, lang_name, i, symbol_buf,
                   lib, hello, loader, calls, entry, overlap>>

\* Line 29: uv_disclose(&lib) releases what the failed open left in lib
\* (the diagnostic text goes with it).
Release(p) ==
    /\ ~aborted
    /\ pc[p] = "release"
    /\ loader' = [loader EXCEPT ![lib[p].log] = [@ EXCEPT !.released = @ + 1]]
    /\ lib' = [lib EXCEPT ![p] = [@ EXCEPT !.handle = 0, !.errmsg = NULL]]
    /\ Goto(p, "raise")
    /\ UNCHANGED <<langs, IObuff, aborted, stack, path, lang_name, i, symbol_buf,
                   hello, calls, entry, overlap>>

\* Lines 30-31: push the message in IObuff and raise it with lua_error.
Raise(p) ==
    /\ ~aborted
    /\ pc[p] = "raise"
    /\ Leave(p, Error(IObuff))
    /\ UNCHANGED <<langs, IObuff, aborted, hello, loader, calls, entry, overlap>>

\* Line 33: control runs off the end of a function returning int, with no
\* return statement: undefined.  The caller sees whatever the build leaves
\* as the return value, or the process dies.
FallOff(p) ==
    /\ ~aborted
    /\ pc[p] = "end"
    /\ \/ \E n \in UndefRets :
             /\ Leave(p, Undefined(n))
             /\ UNCHANGED aborted
       \/ /\ Leave(p, Abort)
          /\ aborted' = TRUE
    /\ UNCHANGED <<langs, IObuff, hello, loader, calls, entry, overlap>>

Body(p) ==
    \/ Validate(p)
    \/ ConvertArgs(p)
    \/ Lookup(p)
    \/ LookupNull(p)
    \/ Loop(p)
    \/ Derive(p)
    \/ DeriveNull(p)
    \/ DlOpen(p)
    \/ Fail(p)
    \/ Release(p)
    \/ Raise(p)
    \/ FallOff(p)

\* The scripting host calls the operation one call at a time.
Next == Call(MainThread) \/ Body(MainThread)

Spec == Init /\ [][Next]_vars

\* Attempts on several threads of control, their statements interleaved.
ConcNext == \E p \in Procs : Call(p) \/ Body(p)

ConcSpec == Init /\ [][ConcNext]_vars

(* ------------------------ vocabulary of the claims --------------------- *)

\* The last call of p has ended.
Done(p) == Idle(p) /\ result[p].kind # "none"

\* The arguments, path and name of p's current or last call.
Args(p) == entry[p].stack
PathOf(p) == lua_tostring(Args(p), 1)
NameOf(p) == lua_tostring(Args(p), 2)

\* Both of the first two arguments are present and text-typed.
TwoTextArgs(st) == lua_gettop(st) >= 2 /\ lua_isstring(st, 1) /\ lua_isstring(st, 2)

\* The C string n is a key of the registry m.
Registered(n, m) == ~n.null /\ n.s \in DOMAIN m

\* The loader invocations made by p's current or last call.
Opens(p) == {k \in DOMAIN loader : k > entry[p].loader /\ loader[k].proc = p}

\* The successful opens logged for the name n.
LoadsOf(n) == {k \in DOMAIN loader : loader[k].ok /\ loader[k].name = n}

\* No loader invocation has failed so far.
LoaderAlwaysSucceeded == \A k \in DOMAIN loader : loader[k].ok

\* The text d ends the text s.
EndsWith(s, d) == Len(s) >= Len(d) /\ SubSeq(s, Len(s) - Len(d) + 1, Len(s)) = d

(* -------------------------------- C1 ----------------------------------- *)

\* C1: a call register(path, name) with two text arguments, name not in the
\* registry and a successful loader open leaves name in the registry; and a
\* call for a name that an earlier attempt loaded successfully returns
\* success without invoking the loader.
C1_RegisteredAfterLoad ==
    \A p \in Procs :
        /\ (/\ Done(p)
            /\ TwoTextArgs(Args(p))
            /\ ~Registered(NameOf(p), entry[p].langs)
            /\ \E k \in Opens(p) : loader[k].ok)
           => Registered(NameOf(p), langs)
        /\ (/\ Done(p)
            /\ TwoTextArgs(Args(p))
            /\ \E k \in LoadsOf(NameOf(p)) : k <= entry[p].loader)
           => (result[p] = Return(0) /\ Opens(p) = {})

(* -------------------------------- C2 ----------------------------------- *)

\* C2: a call whose name is in the registry when it is made never gets past
\* the duplicate check, never invokes the loader and never changes the
\* registry, and it ends by returning success, whatever the path argument.
C2_AlreadyRegisteredNoOp ==
    \A p \in Procs :
        Registered(NameOf(p), entry[p].langs) =>
            /\ pc[p] \in {"idle", "validate", "tostring", "lookup"}
            /\ Opens(p) = {}
            /\ langs = entry[p].langs
            /\ Done(p) => result[p] = Return(0)

\* A call with a registered name and a text path has returned success.
C2_Witness ==
    \E p \in Procs :
        /\ Done(p)
        /\ Registered(NameOf(p), entry[p].langs)
        /\ Args(p)[1] = LuaStr(GoodPath)
        /\ result[p] = Return(0)

(* -------------------------------- C3 ----------------------------------- *)

\* C3: a call with fewer than two arguments, or whose first or second
\* argument is not text-typed, goes no further than the argument check
\* (no lookup, no loader call, registry unchanged) and ends with the error
\* "string expected".
C3_InvalidArgumentsRejected ==
    \A p \in Procs :
        (calls > 0 /\ ~TwoTextArgs(Args(p))) =>
            /\ pc[p] \in {"idle", "validate"}
            /\ Opens(p) = {}
            /\ langs = entry[p].langs
            /\ Done(p) => result[p] = Error("string expected")

(* -------------------------------- C4 ----------------------------------- *)

\* C4: a call whose loader open failed ends with an error whose message is
\* non-empty and ends with the loader's non-empty diagnostic text; the
\* registry is as it was at the call and holds no entry for the name.
C4_LoadFailedReported ==
    \A p \in Procs :
        \A k \in Opens(p) :
            (Done(p) /\ ~loader[k].ok) =>
                /\ result[p].kind = "error"
                /\ loader[k].diag # ""
                /\ EndsWith(result[p].msg, loader[k].diag)
                /\ langs = entry[p].langs
                /\ ~Registered(NameOf(p), langs)

\* A call with two text arguments and an unregistered name has ended after
\* the loader failed to open the path.
C4_Witness ==
    \E p \in Procs :
        /\ Done(p)
        /\ TwoTextArgs(Args(p))
        /\ ~Registered(NameOf(p), entry[p].langs)
        /\ \E k \in Opens(p) : ~loader[k].ok /\ loader[k].diag = "file not found"

(* -------------------------------- C5 ----------------------------------- *)

\* C5: with a loader that has always succeeded and no call in flight, every
\* name the loader opened a library for is in the registry and was opened
\* exactly once, and no name in the registry was opened more than once.
C5_LoadedExactlyOnce ==
    (LoaderAlwaysSucceeded /\ \A p \in Procs : Idle(p)) =>
        /\ \A k \in DOMAIN loader :
              ~loader[k].name.null =>
                  /\ Registered(loader[k].name, langs)
                  /\ Cardinality(LoadsOf(loader[k].name)) = 1
        /\ \A n \in DOMAIN langs : Cardinality(LoadsOf(CStr(n))) <= 1

(* -------------------------------- C6 ----------------------------------- *)

\* The loaded handles the registry retains.
Retained == {k \in DOMAIN loader : loader[k].ok /\ \E n \in DOMAIN langs : langs[n] = k}

\* C6: two attempts for the same new name that overlapped in time, under a
\* loader that always succeeded, end with the name in the registry and at
\* most one of the loaded handles retained.
C6_ConcurrentSameName ==
    \A p, q \in Procs :
        (/\ p # q
         /\ Done(p) /\ Done(q)
         /\ overlap[p] /\ overlap[q]
         /\ TwoTextArgs(Args(p)) /\ TwoTextArgs(Args(q))
         /\ NameOf(p) = NameOf(q)
         /\ ~Registered(NameOf(p), entry[p].langs)
         /\ ~Registered(NameOf(q), entry[q].langs)
         /\ LoaderAlwaysSucceeded)
        => (Registered(NameOf(p), langs) /\ Cardinality(Retained) <= 1)

(* -------------------------------- C7 ----------------------------------- *)

\* The step adds exactly the new name n, mapped to a handle the loader
\* opened for n, and leaves every other entry as it was.
AddsOne(n) ==
    /\ n \notin DOMAIN langs
    /\ DOMAIN langs' = DOMAIN langs \cup {n}
    /\ \A m \in DOMAIN langs : langs'[m] = langs[m]
    /\ langs'[n] \in LoadsOf(CStr(n))'

\* The step ends an attempt with an error.
EndsInError == \E p \in Procs : result[p].kind = "none" /\ result'[p].kind = "error"

\* C7: every step leaves the registry unchanged or adds exactly one new
\* name whose load succeeded; no entry is removed or remapped, and a step
\* that ends an attempt with an error leaves the registry unchanged.
C7_RegistryOnlyGrows ==
    [][/\ langs' = langs \/ \E n \in DOMAIN langs' : AddsOne(n)
       /\ EndsInError => langs' = langs]_vars

\* An attempt has failed with the registry holding an entry, unchanged.
C7_Witness ==
    \E p \in Procs :
        /\ Done(p)
        /\ result[p].kind = "error"
        /\ Opens(p) # {}
        /\ langs # <<>>
        /\ langs = entry[p].langs

(* -------------------------------- C8 ----------------------------------- *)

\* Once an attempt is past the derivation, symbol_buf holds the symbol.
Derived(p) == pc[p] \in {"dlopen", "fail", "release", "raise", "end"} /\ ~lang_name[p].null

\* C8 as stated: the derived symbol is "tree_sitter_" followed by the name,
\* for every name.
C8_SymbolIsPrefixPlusName ==
    \A p \in Procs :
        Derived(p) => symbol_buf[p] = "tree_sitter_" \o lang_name[p].s

\* C8 amended: for a name of at most BUFSIZE - 13 = 115 characters the
\* derived symbol is "tree_sitter_" followed by the name; for the name
\* "python" it is "tree_sitter_python".
C8_SymbolOfFittingName ==
    \A p \in Procs :
        Derived(p) =>
            /\ Len(lang_name[p].s) <= BUFSIZE - 13
                  => symbol_buf[p] = "tree_sitter_" \o lang_name[p].s
            /\ lang_name[p].s = "python" => symbol_buf[p] = "tree_sitter_python"

\* An attempt for "python" has derived its symbol.
C8_Witness ==
    \E p \in Procs : Derived(p) /\ lang_name[p].s = "python"

(* -------------------------------- C9 ----------------------------------- *)

\* C9: a call with two text arguments ends with a defined outcome, success
\* (return 0) or an error with a message, and never brings the process down.
C9_DefinedOutcome ==
    \A p \in Procs :
        (Done(p) /\ TwoTextArgs(Args(p))) =>
            \/ result[p] = Return(0)
            \/ result[p].kind = "error" /\ result[p].msg # ""

(* -------------------------------- C11 ---------------------------------- *)

\* A call by p has been made (it is in flight or has ended).
Entered(p) == ~Idle(p) \/ result[p].kind # "none"

\* The step of the attempt that a statement belongs to: 1 ValidateArgs,
\* 2 CheckDuplicate, 3 DeriveSymbolName, 4 LoadLibrary, 5 the outcome of the
\* load (the failure path, or the end of the function).
Stage(label) ==
    CASE label = "idle" -> 0
      [] label = "validate" -> 1
      [] label \in {"tostring", "lookup", "loop"} -> 2
      [] label = "derive" -> 3
      [] label = "dlopen" -> 4
      [] OTHER -> 5

\* C11: within an attempt control only stays in a step, moves to the next
\* step of ValidateArgs, CheckDuplicate, DeriveSymbolName, LoadLibrary, or
\* leaves; the loader is invoked only by an attempt at LoadLibrary, at most
\* once per attempt, only when the argument check passed and the name was
\* not registered; the registry changes only in an attempt whose load
\* succeeded.
C11_StepOrder ==
    [][\A p \in Procs :
          /\ pc'[p] # pc[p] =>
                \/ pc'[p] = "idle"
                \/ pc[p] = "idle" /\ pc'[p] = "validate"
                \/ pc[p] # "idle" /\ Stage(pc'[p]) \in {Stage(pc[p]), Stage(pc[p]) + 1}
          /\ ~(Opens(p)' \subseteq Opens(p)) => pc[p] = "dlopen"
          /\ Cardinality(Opens(p)') <= 1
          /\ Opens(p)' # {} =>
                /\ ~ArgCheckFails(Args(p)')
                /\ ~Registered(NameOf(p)', entry'[p].langs)
          /\ langs' # langs => \E q \in Procs : \E k \in Opens(q) : loader[k].ok]_vars

\* An attempt has gone through every step up to a successful load.
C11_Witness ==
    \E p \in Procs : pc[p] = "end" /\ Cardinality(Opens(p)) = 1

(* -------------------------------- C12 ---------------------------------- *)

\* C12: a library the loader opened is never released; a failed open is
\* released at most once, not before the message with the loader's
\* diagnostic is in IObuff, and exactly once by the time the error is
\* raised; the error carries the diagnostic and the registry is unchanged.
C12_ReleasedOnFailureOnly ==
    \A k \in DOMAIN loader :
        LET p == loader[k].proc
            d == loader[k].diag
        IN  /\ loader[k].released <= 1
            /\ loader[k].ok => loader[k].released = 0
            /\ (~loader[k].ok /\ k \notin Opens(p)) => loader[k].released = 1
            /\ (~loader[k].ok /\ k \in Opens(p)) =>
                  /\ langs = entry[p].langs
                  /\ pc[p] = "fail" => loader[k].released = 0
                  /\ pc[p] = "release" => (loader[k].released = 0 /\ EndsWith(IObuff, d))
                  /\ pc[p] = "raise" => (loader[k].released = 1 /\ EndsWith(IObuff, d))
                  /\ Done(p) => /\ loader[k].released = 1
                                /\ result[p].kind = "error"
                                /\ EndsWith(result[p].msg, d)

\* An attempt is about to raise the error of a failed open it has released.
C12_Witness ==
    \E p \in Procs :
        /\ pc[p] = "raise"
        /\ \E k \in Opens(p) : ~loader[k].ok /\ loader[k].released = 1

(* -------------------------------- C13 ---------------------------------- *)

\* The symbol derived for the C string n does not fit symbol_buf.
TooLong(n) == ~n.null /\ Len("tree_sitter_" \o n.s) >= BUFSIZE

\* C13 as stated: an attempt whose derived symbol exceeds the buffer ends
\* in failure at the derivation: it never reaches the loader and the
\* registry is unchanged.
C13_TooLongFails ==
    \A p \in Procs :
        (Entered(p) /\ TooLong(NameOf(p))) =>
            /\ Stage(pc[p]) <= 3
            /\ Opens(p) = {}
            /\ Done(p) => result[p].kind = "error"
            /\ langs = entry[p].langs

\* C13 amended: an attempt whose derived symbol exceeds the buffer does not
\* fail at the derivation: symbol_buf holds BUFSIZE - 1 = 127 characters,
\* the attempt goes on to the loader, which it has invoked once when it
\* ends, and the registry is unchanged.
C13_TooLongTruncatedAndLoaded ==
    \A p \in Procs :
        (Entered(p) /\ TooLong(NameOf(p))) =>
            /\ Derived(p) => Len(symbol_buf[p]) = BUFSIZE - 1
            /\ Done(p) => Cardinality(Opens(p)) = 1
            /\ langs = entry[p].langs

\* An attempt with a too long name has ended after the loader opened the
\* library.
C13_Witness ==
    \E p \in Procs :
        /\ Done(p)
        /\ TooLong(NameOf(p))
        /\ \E k \in Opens(p) : loader[k].ok

(* -------------------------------- C14 ---------------------------------- *)

\* C14: an attempt with two text arguments, for a name an earlier attempt
\* failed to load, whose own load succeeds, returns success and leaves the
\* name registered.
C14_RetryAfterFailureSucceeds ==
    \A p \in Procs :
        (/\ Done(p)
         /\ TwoTextArgs(Args(p))
         /\ \E k \in DOMAIN loader :
               k <= entry[p].loader /\ ~loader[k].ok /\ loader[k].name = NameOf(p)
         /\ \E k \in Opens(p) : loader[k].ok)
        => (result[p] = Return(0) /\ Registered(NameOf(p), langs))

(* -------------------------------- C15 ---------------------------------- *)

\* The argument check has rejected p's call.
Rejected(p) == Done(p) /\ result[p] = Error("string expected")

\* The argument check has been decided for p's call.
Checked(p) == Entered(p) /\ pc[p] # "validate"

\* C15 as stated: wherever the check has been applied to a call, it is a
\* check that lets some invalid argument list of two arguments pass and
\* makes some valid one (two text arguments) fail.
C15_AcceptsInvalidRejectsValid ==
    \A p \in Procs :
        Checked(p) =>
            /\ \E st \in ArgLists :
                  lua_gettop(st) = 2 /\ ~TwoTextArgs(st) /\ ~ArgCheckFails(st)
            /\ \E st \in ArgLists : TwoTextArgs(st) /\ ArgCheckFails(st)

\* C15 amended: the check accepts the invalid two-argument calls in which
\* exactly one argument is text-typed, and it rejects no valid call.
C15_AcceptsInvalidRejectsNoValid ==
    \A p \in Procs :
        Checked(p) =>
            /\ TwoTextArgs(Args(p)) => ~Rejected(p)
            /\ (/\ lua_gettop(Args(p)) = 2
                /\ lua_isstring(Args(p), 1) # lua_isstring(Args(p), 2))
               => ~Rejected(p)

\* An invalid two-argument call has passed the check.
C15_Witness ==
    \E p \in Procs :
        /\ pc[p] = "tostring"
        /\ lua_gettop(Args(p)) = 2
        /\ ~TwoTextArgs(Args(p))

(* -------------------------------- C16 ---------------------------------- *)

\* The texts a caller can pass as a name.
Names == {v.s : v \in {w \in LuaVals : w.t \in {"string", "number"}}}

\* The first k characters of s (all of s when it is shorter).
Prefix(s, k) == IF Len(s) <= k THEN s ELSE SubSeq(s, 1, k)

\* C16: the symbol of a name longer than BUFSIZE - 13 = 115 characters is
\* the first BUFSIZE - 1 = 127 characters of "tree_sitter_" + name; another
\* such name with the same first 115 characters derives the same symbol,
\* and two distinct names of at most 115 characters derive distinct symbols.
C16_TruncationCollides ==
    \A p \in Procs :
        Derived(p) =>
            LET n == lang_name[p].s
                fit == BUFSIZE - 13
            IN  /\ Len(n) > fit =>
                      symbol_buf[p] = SubSeq("tree_sitter_" \o n, 1, BUFSIZE - 1)
                /\ \A m \in Names \ {n} :
                      /\ (/\ Len(n) > fit /\ Len(m) > fit
                          /\ Prefix(n, fit) = Prefix(m, fit))
                         => SymbolName(m) = symbol_buf[p]
                      /\ (Len(n) <= fit /\ Len(m) <= fit)
                         => SymbolName(m) # symbol_buf[p]

\* An attempt for one long name holds the symbol of the other long name.
C16_Witness ==
    \E p \in Procs :
        /\ Derived(p)
        /\ lang_name[p].s = LongName
        /\ symbol_buf[p] = SymbolName(LongName2)

(* -------------------------------- C17 ---------------------------------- *)

\* C17: once the check is decided, the call has been rejected with "string
\* expected" exactly when argument 2 is not text-typed and (there are fewer
\* than two arguments or argument 1 is not text-typed); a call that was
\* not rejected is at, or has been through, the registry lookup.
C17_RaisesExactlyWhen ==
    \A p \in Procs :
        Checked(p) =>
            /\ Rejected(p) <=>
                  (/\ ~lua_isstring(Args(p), 2)
                   /\ (lua_gettop(Args(p)) < 2 \/ ~lua_isstring(Args(p), 1)))
            /\ ~Rejected(p) => (Stage(pc[p]) >= 2 \/ Done(p))

\* A call whose argument 1 is not text-typed is at the registry lookup.
C17_Witness ==
    \E p \in Procs :
        /\ pc[p] = "lookup"
        /\ ~lua_isstring(Args(p), 1)
        /\ lua_isstring(Args(p), 2)

(* -------------------------------- C18 ---------------------------------- *)

\* C18: the loop body never runs (nothing is written to cout), and an
\* attempt past the loop has i = 1.
C18_LoopBodyNeverRuns ==
    /\ hello = 0
    /\ \A p \in Procs : Stage(pc[p]) >= 3 => i[p] = 1

\* An attempt has just left the loop.
C18_Witness ==
    \E p \in Procs : pc[p] = "derive" /\ i[p] = 1 /\ hello = 0

====
